---- MODULE Spec2Model ----
(***************************************************************************)
(* SlicerCaseIterator: the case load/close state machine of               *)
(* CaseTableIteratorLogic (CsvTableIterator.py), its event listeners      *)
(* (IteratorBase.py, CsvTableEventHandler) and the scene-scoped           *)
(* parameter node that holds the case record.                             *)
(*                                                                         *)
(* The host (3D Slicer) is modelled by what the code observes of it:      *)
(*   - the MRML scene is a function from node ID to the node's class and  *)
(*     whether the node has a storage node with a file name;              *)
(*   - node IDs are handed out by a counter and never reused;             *)
(*   - whether a file exists and whether a host load succeeds is an       *)
(*     input of each loadCase call.                                       *)
(* Python's None is 0 for a node reference (node IDs start at 1) and the  *)
(* empty sequence for currentIdx.                                         *)
(***************************************************************************)
EXTENDS Integers, Sequences, FiniteSets, TLC

\* ---------------------------------------------------------------- bounds
\* Highest node ID the scene hands out; loads and user actions that would
\* need a higher one are not taken.
MaxNodeId == 4
\* Segmentations the user creates during a run
MaxUserSegmentations == 1
\* The longest file name a saved node is given, in characters
MaxNameLen == 2
\* The most files the target directory holds
MaxFiles == 3
\* How many names of their own callers register iterator widgets under
MaxCustomNames == 3

\* ------------------------------------------------- the case table
\* The table the iterator is constructed on: one record of cells per row
\* (row idx of the code is caseTable[idx + 1]); "" is an empty cell. The
\* column map names two additional image columns and two additional mask
\* columns.
caseTable ==
    << [image |-> "a.nii", mask |-> "a_label.nii",
        additionalImages |-> <<"a_t2.nii", "a_adc.nii">>,
        additionalMasks |-> <<"", "">>],
       [image |-> "b.nii", mask |-> "b.seg.nrrd",
        additionalImages |-> <<"", "">>,
        additionalMasks |-> <<"b_2.seg.nrrd", "b_3_label.nii">>],
       [image |-> "c.nii", mask |-> "",
        additionalImages |-> <<"", "">>,
        additionalMasks |-> <<"", "">>] >>

\* vtkTable.GetNumberOfRows
GetNumberOfRows == Len(caseTable)

\* os.path.splitext(path)[0].endswith(".seg")
isSegmentation(fname) == fname \in {"b.seg.nrrd", "b_2.seg.nrrd"}

\* ------------------------------------------------------------ constants
None == 0
NoIdx == <<>>
\* The listener startBatch registers, and another listener that a caller of
\* registerEventListener may add (IteratorEventHandlerBase, handlers pass).
CsvTableEventHandler == "CsvTableEventHandler"
OtherEventHandler == "IteratorEventHandlerBase"
Listeners == {CsvTableEventHandler, OtherEventHandler}

\* What the file a cell names can be when loadCase reads it:
\*   empty      - the cell is empty: _buildPath returns None
\*   missing    - os.path.isfile is false
\*   fail       - loadVolume / loadSegmentation / loadLabelVolume reports
\*                no success
\*   importfail - a labelmap loads, ImportLabelmapToSegmentationNode fails
\*   ok         - the node is loaded (and, for a labelmap, converted)
ImageOutcomes(fname) ==
    IF fname = "" THEN {"empty"} ELSE {"missing", "fail", "ok"}
MaskOutcomes(fname) ==
    IF fname = "" THEN {"empty"}
    ELSE IF isSegmentation(fname) THEN {"missing", "fail", "ok"}
    ELSE {"missing", "fail", "importfail", "ok"}

VARIABLES
    scene,            \* slicer.mrmlScene: node ID -> [class, storage]
    nextId,           \* the scene's unique-ID counter
    parameterNode,    \* the singleton parameter node: [inScene, CaseData]
    currentIdx,       \* IteratorLogicBase.currentIdx: <<>> (None) or <<idx>>
    caseCount,        \* IteratorLogicBase.caseCount
    eventListeners,   \* IteratorLogicBase._eventListeners, in order
    maskColumn,       \* whether "mask" is a key of the column map
    saveNew,          \* CsvTableEventHandler.saveNew
    saveLoaded,       \* CsvTableEventHandler.saveLoaded
    widgetIterator,   \* CaseTableIteratorWidget._iterator is set
    result,           \* how the last call ended: "ok" or the exception raised
    events,           \* what it did, in order: listener and host calls
    userSegmentations \* how many segmentations the user has created

\* The other parts of the program, each with a specification of its own
VARIABLES
    files,            \* the paths that exist in the directory saveMask writes to
    written,          \* how the last saveMask ended: [raised, path]
    IMPLEMENTATIONS,  \* IteratorFactory.IMPLEMENTATIONS: name -> widget class
    registered,       \* how the last registerIteratorWidget ended
    built,            \* the last _buildPath call: its arguments and its result
    constructed,      \* the last CaseTableIteratorLogic(tableNode, columnMap)
    inputWidget,      \* CaseTableIteratorWidget: table selector, image column
                      \* text, validationHandler, and the table nodes of the scene
    notified,         \* what the last event passed to validationHandler, if it
                      \* called it
    otherIterator     \* a second CaseTableIteratorLogic instance on the same
                      \* scene: [alive, currentIdx]

iteratorVars == <<scene, nextId, parameterNode, currentIdx, caseCount,
                  eventListeners, maskColumn, saveNew, saveLoaded, widgetIterator,
                  result, events, userSegmentations>>
componentVars ==
    <<files, written, IMPLEMENTATIONS, registered, built, constructed, inputWidget,
      notified, otherIterator>>
vars == <<iteratorVars, componentVars>>

\* ------------------------------------------------------------- helpers
Range(s) == {s[i] : i \in DOMAIN s}

RECURSIVE SetToSeq(_)
\* The elements of a set of node IDs in scene order (ascending ID).
SetToSeq(S) ==
    IF S = {} THEN <<>>
    ELSE LET m == CHOOSE x \in S : \A y \in S : x <= y
         IN <<m>> \o SetToSeq(S \ {m})

\* vtkMRMLScene.AddNode
AddNode(sc, id, class, storage) ==
    [n \in DOMAIN sc \cup {id} |->
        IF n = id THEN [class |-> class, storage |-> storage] ELSE sc[n]]

\* vtkMRMLScene.GetNodeByID: the node, or None
GetNodeByID(sc, id) == IF id \in DOMAIN sc THEN id ELSE None

\* IteratorLogicBase.removeNodeByID: removing an absent ID does nothing
removeNodeByID(sc, id) ==
    IF GetNodeByID(sc, id) # None
    THEN [n \in DOMAIN sc \ {id} |-> sc[n]]
    ELSE sc

\* --------------------------------------------- case-record wire format
\* dict.__str__() of the case record: the text is a sequence of
\* <<key, value>> pairs; the empty text is the empty sequence.
Serialize(im, ma, addIm, addMa) ==
    << <<"InputImage_ID", im>>,
       <<"InputMask_ID", ma>>,
       <<"Additional_InputImage_IDs", addIm>>,
       <<"Additional_InputMask_IDs", addMa>> >>

EmptyText == <<>>

\* ast.literal_eval / eval raise on the empty text
CanEval(text) == text # EmptyText

\* caseData[key] of the evaluated text
Lookup(text, key) ==
    LET i == CHOOSE j \in DOMAIN text : text[j][1] = key IN text[i][2]

\* IteratorLogicBase.parameterNode: the getter creates the node when the
\* scene has none; a new node has no parameter (GetParameter gives "").
GetParameterNode(pn) ==
    IF pn.inScene THEN pn ELSE [inScene |-> TRUE, CaseData |-> EmptyText]

\* CaseTableIteratorLogic.getCaseData
EmptyCaseData == [im |-> None, ma |-> None, add_im |-> <<>>, add_ma |-> <<>>]

getCaseData(sc, pn) ==
    LET text == GetParameterNode(pn).CaseData IN
    IF ~CanEval(text) THEN EmptyCaseData
    ELSE LET maId == Lookup(text, "InputMask_ID")
             ims == Lookup(text, "Additional_InputImage_IDs")
             mas == Lookup(text, "Additional_InputMask_IDs")
         IN [im |-> GetNodeByID(sc, Lookup(text, "InputImage_ID")),
             ma |-> IF maId # None THEN GetNodeByID(sc, maId) ELSE None,
             add_im |-> [i \in DOMAIN ims |-> GetNodeByID(sc, ims[i])],
             add_ma |-> [i \in DOMAIN mas |-> GetNodeByID(sc, mas[i])]]

\* ---------------------------------------------------------------- events
EvAboutToClose(l, sc, data) ==
    [type |-> "caseAboutToClose", listener |-> l, scene |-> DOMAIN sc,
     data |-> data]
EvSave(n) == [type |-> "saveNode", node |-> n]
EvRemove(n) == [type |-> "RemoveNode", node |-> n]
EvLoad(column, n) == [type |-> "loadNode", column |-> column, node |-> n]
EvLoaded(l) == [type |-> "caseLoaded", listener |-> l]
EvWarning(l) == [type |-> "warning", listener |-> l]

\* The positions of the events of one type in a log
EventsOfType(log, type) == {i \in DOMAIN log : log[i].type = type}

\* ------------------------------------------------- CsvTableEventHandler
\* The host's answers to the file operations of saveMask (os.makedirs,
\* the formatting of the file name, slicer.util.saveNode): they go through
\* or raise.
SaveOutcomes == {"ok", "raises"}

\* saveMask dereferences the node, and the main image of the case data
\* when the node has no storage file name: None there raises
\* AttributeError. After that an exception of a file operation propagates.
saveMaskRaises(sc, node, data, save) ==
    \/ node = None
    \/ (~sc[node].storage /\ data.im = None)
    \/ save = "raises"

\* The exception a raising listener hands to the caller of closeCase
RaisedBy(save) == IF save = "raises" THEN "Exception" ELSE "AttributeError"

\* slicer.util.saveNode writes the file; the host gives the node a storage
\* node with that file name.
saveMask(sc, node) ==
    [n \in DOMAIN sc |-> IF n = node THEN [sc[n] EXCEPT !.storage = TRUE] ELSE sc[n]]

\* (mutant) every segmentation node of the scene counts as new
NewMaskNodesAll(sc, data) ==
    {n \in DOMAIN sc : sc[n].class = "vtkMRMLSegmentationNode"}

\* The segmentation nodes of the scene that are not loaded masks
NewMaskNodes(sc, data) ==
    {n \in DOMAIN sc : /\ sc[n].class = "vtkMRMLSegmentationNode"
                       /\ n \notin Range(data.add_ma)
                       /\ n # data.ma}

RECURSIVE SaveEach(_, _, _, _)
\* saveMask on each node of a list, in order, up to the first that raises.
\* m is [scene, events, raised].
SaveEach(m, nodes, data, save) ==
    IF nodes = <<>> \/ m.raised THEN m
    ELSE IF saveMaskRaises(m.scene, Head(nodes), data, save)
         THEN [m EXCEPT !.raised = TRUE]
         ELSE SaveEach([m EXCEPT !.scene = saveMask(m.scene, Head(nodes)),
                                 !.events = Append(m.events, EvSave(Head(nodes)))],
                       Tail(nodes), data, save)

\* CsvTableEventHandler.onCaseAboutToClose. m is [scene, events, raised].
CsvOnCaseAboutToClose(m, pn, new, loaded, save) ==
    LET data == getCaseData(m.scene, pn)
        m0 == [m EXCEPT !.events =
                   Append(m.events, EvAboutToClose(CsvTableEventHandler, m.scene, data))]
        loadedMasks == IF loaded
                       THEN (IF data.ma # None THEN <<data.ma>> ELSE <<>>) \o data.add_ma
                       ELSE <<>>
        m1 == SaveEach(m0, loadedMasks, data, save)
        newMasks == IF new THEN SetToSeq(NewMaskNodes(m1.scene, data)) ELSE <<>>
    IN SaveEach(m1, newMasks, data, save)

\* IteratorEventHandlerBase.onCaseAboutToClose: pass
BaseOnCaseAboutToClose(m, pn) ==
    [m EXCEPT !.events =
        Append(m.events,
               EvAboutToClose(OtherEventHandler, m.scene, getCaseData(m.scene, pn)))]

RECURSIVE caseAboutToClose(_, _, _, _, _, _)
\* IteratorEventListenerList.caseAboutToClose: each listener in list order;
\* an exception a listener raises ends the loop and propagates.
caseAboutToClose(m, listeners, pn, new, loaded, save) ==
    IF listeners = <<>> \/ m.raised THEN m
    ELSE LET l == Head(listeners)
             m1 == IF l = CsvTableEventHandler
                   THEN CsvOnCaseAboutToClose(m, pn, new, loaded, save)
                   ELSE BaseOnCaseAboutToClose(m, pn)
         IN caseAboutToClose(m1, Tail(listeners), pn, new, loaded, save)

\* ------------------------------------------------------------ closeCase
RECURSIVE RemoveEach(_, _)
\* removeNodeByID on each ID of a list. m is [scene, events, raised].
RemoveEach(m, ids) ==
    IF ids = <<>> THEN m
    ELSE LET id == Head(ids)
             m1 == IF GetNodeByID(m.scene, id) # None
                   THEN [m EXCEPT !.scene = removeNodeByID(m.scene, id),
                                  !.events = Append(m.events, EvRemove(id))]
                   ELSE m
         IN RemoveEach(m1, Tail(ids))

\* The IDs closeCase removes, in the order it removes them
RecordedIds(text) ==
    IF ~CanEval(text) THEN <<>>
    ELSE <<Lookup(text, "InputImage_ID")>>
         \o (IF Lookup(text, "InputMask_ID") # None
             THEN <<Lookup(text, "InputMask_ID")>> ELSE <<>>)
         \o Lookup(text, "Additional_InputImage_IDs")
         \o Lookup(text, "Additional_InputMask_IDs")

\* What closeCase leaves in the parameter "CaseData"
CaseDataAfterClose(text) == text

\* (mutant) closeCase removes the nodes before it tells the listeners
closeCaseRemovesFirst(sc, pn, cur, listeners, new, loaded, save) ==
    LET pn1 == GetParameterNode(pn)
        m1 == RemoveEach([scene |-> sc, events |-> <<>>, raised |-> FALSE],
                         RecordedIds(pn1.CaseData))
        m2 == caseAboutToClose(m1, listeners, pn1, new, loaded, save)
    IN [scene |-> m2.scene, pn |-> pn1, cur |-> IF m2.raised THEN cur ELSE NoIdx,
        events |-> m2.events, raised |-> m2.raised]

\* CaseTableIteratorLogic.closeCase from scene sc, parameter node pn and
\* current index cur: [scene, pn, cur, events, raised].
closeCase(sc, pn, cur, listeners, new, loaded, save) ==
    LET pn1 == GetParameterNode(pn)
        m1 == caseAboutToClose([scene |-> sc, events |-> <<>>, raised |-> FALSE],
                               listeners, pn1, new, loaded, save)
        m2 == RemoveEach(m1, RecordedIds(pn1.CaseData))
    IN IF m1.raised
       THEN [scene |-> m1.scene, pn |-> pn1, cur |-> cur,
             events |-> m1.events, raised |-> TRUE]
       ELSE [scene |-> m2.scene,
             pn |-> [pn1 EXCEPT !.CaseData = CaseDataAfterClose(pn1.CaseData)],
             cur |-> NoIdx, events |-> m2.events, raised |-> FALSE]

\* ------------------------------------------------------------- loading
\* CaseTableIteratorLogic._loadImageNode for one cell: the state after it
\* and the node it returns (None unless the volume loads).
\* m is [scene, nextId, events].
_loadImageNode(m, column, outcome) ==
    IF outcome = "ok"
    THEN [scene |-> AddNode(m.scene, m.nextId, "vtkMRMLScalarVolumeNode", TRUE),
          nextId |-> m.nextId + 1,
          events |-> Append(m.events, EvLoad(column, m.nextId)),
          node |-> m.nextId]
    ELSE [scene |-> m.scene, nextId |-> m.nextId,
          events |-> Append(m.events, EvLoad(column, None)),
          node |-> None]

\* CaseTableIteratorLogic._loadMaskNode for one cell. A labelmap that loads
\* is replaced by a new segmentation node, which gets a storage node
\* whether or not the import into it succeeds; the node is returned only
\* when the import succeeds.
_loadMaskNode(m, column, outcome) ==
    IF outcome \in {"ok", "importfail"}
    THEN [scene |-> AddNode(m.scene, m.nextId, "vtkMRMLSegmentationNode", TRUE),
          nextId |-> m.nextId + 1,
          events |-> Append(m.events,
                            EvLoad(column, IF outcome = "ok" THEN m.nextId ELSE None)),
          node |-> IF outcome = "ok" THEN m.nextId ELSE None]
    ELSE [scene |-> m.scene, nextId |-> m.nextId,
          events |-> Append(m.events, EvLoad(column, None)),
          node |-> None]

\* (mutant) the loop puts a loaded node in front of the list
PrependLoaded(nodes, node) == IF node # None THEN <<node>> \o nodes ELSE nodes

\* What the loop over an additional column keeps of one loaded node
AppendLoaded(nodes, node) == IF node # None THEN Append(nodes, node) ELSE nodes

RECURSIVE LoadAdditionalImages(_, _, _)
\* The loop over the additional image columns: m is [scene, nextId,
\* events], outcomes the cells left to load, nodes the nodes kept so far.
LoadAdditionalImages(m, outcomes, nodes) ==
    IF outcomes = <<>>
    THEN [scene |-> m.scene, nextId |-> m.nextId, events |-> m.events, nodes |-> nodes]
    ELSE LET r == _loadImageNode(m, "additionalImages", Head(outcomes))
         IN LoadAdditionalImages(r, Tail(outcomes), AppendLoaded(nodes, r.node))

RECURSIVE LoadAdditionalMasks(_, _, _)
\* The loop over the additional mask columns.
LoadAdditionalMasks(m, outcomes, nodes) ==
    IF outcomes = <<>>
    THEN [scene |-> m.scene, nextId |-> m.nextId, events |-> m.events, nodes |-> nodes]
    ELSE LET r == _loadMaskNode(m, "additionalMasks", Head(outcomes))
         IN LoadAdditionalMasks(r, Tail(outcomes), AppendLoaded(nodes, r.node))

\* (mutant) the upper limit of the range check is off by one
InRangeOffByOne(idx, n) == 0 <= idx /\ idx <= n

\* The assertion at the head of loadCase
InRange(idx, n) == 0 <= idx /\ idx < n

\* (mutant) loadCase does not close the open case
MustCloseNever(cur) == FALSE

\* loadCase closes the open case first
MustClose(cur) == cur # NoIdx

\* (mutant) the main image node is not checked
MainImageUnchecked(node) == TRUE

\* The assertion on the main image node
MainImageLoaded(node) == node # None

\* node.GetID() on None raises AttributeError
GetIDRaises(node) == node = None

\* (mutant) currentIdx is set to the row after the one loaded
IdxAfterLoadNext(idx) == <<idx + 1>>

\* currentIdx after the case record is written
IdxAfterLoad(idx) == <<idx>>

\* (mutant) onCaseLoaded lets a failure of its wiring out
onCaseLoadedPropagates(wiring) == wiring = "fail"

\* Whether CsvTableEventHandler.onCaseLoaded raises: its try block holds
\* all of the viewer and editor wiring and except Exception catches what
\* that raises
onCaseLoadedRaises(wiring) == FALSE

\* CsvTableEventHandler.onCaseLoaded when its wiring ends as wiring: a
\* failure is logged as a warning
CsvOnCaseLoaded(log, wiring) ==
    IF wiring = "fail"
    THEN log \o <<EvLoaded(CsvTableEventHandler), EvWarning(CsvTableEventHandler)>>
    ELSE Append(log, EvLoaded(CsvTableEventHandler))

RECURSIVE caseLoaded(_, _, _)
\* IteratorEventListenerList.caseLoaded: each listener in list order.
\* IteratorEventHandlerBase.onCaseLoaded passes.
caseLoaded(log, listeners, wiring) ==
    IF listeners = <<>> THEN log
    ELSE caseLoaded(IF Head(listeners) = CsvTableEventHandler
                    THEN CsvOnCaseLoaded(log, wiring)
                    ELSE Append(log, EvLoaded(Head(listeners))),
                    Tail(listeners), wiring)

\* loadCase from the write of the case record on: im, ai, ma and am are
\* the results of the four loading steps, pn1 the parameter node the
\* property getter returned and cur the current index.
loadCase_setParameter(idx, o, listeners, pn1, cur, im, ai, ma, am) ==
    IF GetIDRaises(im.node) \/ GetIDRaises(ma.node)
    THEN [scene |-> am.scene, nextId |-> am.nextId, pn |-> pn1, cur |-> cur,
          events |-> am.events, result |-> "AttributeError"]
    ELSE [scene |-> am.scene, nextId |-> am.nextId,
          pn |-> [pn1 EXCEPT !.CaseData =
                     Serialize(im.node, ma.node, ai.nodes, am.nodes)],
          cur |-> IdxAfterLoad(idx),
          events |-> caseLoaded(am.events, listeners, o.wiring),
          result |-> IF /\ CsvTableEventHandler \in Range(listeners)
                        /\ onCaseLoadedRaises(o.wiring)
                     THEN "Exception" ELSE "ok"]

\* loadCase from the additional masks on
loadCase_additionalMasks(idx, o, listeners, pn1, cur, im, ai, ma) ==
    loadCase_setParameter(idx, o, listeners, pn1, cur, im, ai, ma,
                          LoadAdditionalMasks(ma, o.additionalMasks, <<>>))

\* loadCase from the main mask on: without a mask column the main mask
\* node is None
loadCase_mask(idx, o, listeners, mcol, pn1, cur, im, ai) ==
    loadCase_additionalMasks(idx, o, listeners, pn1, cur, im, ai,
        IF mcol
        THEN _loadMaskNode(ai, "mask", o.mask)
        ELSE [scene |-> ai.scene, nextId |-> ai.nextId, events |-> ai.events,
              node |-> None])

\* loadCase from the assertion on the main image node im on; c is the
\* state closeCase left
loadCase_additionalImages(idx, o, listeners, mcol, c, im) ==
    IF ~MainImageLoaded(im.node)
    THEN [scene |-> im.scene, nextId |-> im.nextId, pn |-> c.pn, cur |-> c.cur,
          events |-> im.events, result |-> "AssertionError"]
    ELSE loadCase_mask(idx, o, listeners, mcol, GetParameterNode(c.pn), c.cur, im,
                       LoadAdditionalImages(im, o.additionalImages, <<>>))

\* loadCase from the load of the main image on; an exception of closeCase
\* propagates
loadCase_image(idx, o, nid, listeners, mcol, c) ==
    IF c.raised
    THEN [scene |-> c.scene, nextId |-> nid, pn |-> c.pn, cur |-> c.cur,
          events |-> c.events, result |-> RaisedBy(o.save)]
    ELSE loadCase_additionalImages(idx, o, listeners, mcol, c,
             _loadImageNode([scene |-> c.scene, nextId |-> nid, events |-> c.events],
                            "image", o.image))

\* CaseTableIteratorLogic.loadCase(idx) with the cells and host outcomes o:
\* [scene, nextId, pn, cur, events, result].
loadCase(idx, o, sc, nid, pn, cur, n, listeners, mcol, new, loaded) ==
    IF ~InRange(idx, n)
    THEN [scene |-> sc, nextId |-> nid, pn |-> pn, cur |-> cur,
          events |-> <<>>, result |-> "AssertionError"]
    ELSE loadCase_image(idx, o, nid, listeners, mcol,
             IF MustClose(cur)
             THEN closeCase(sc, pn, cur, listeners, new, loaded, o.save)
             ELSE [scene |-> sc, pn |-> pn, cur |-> cur, events |-> <<>>,
                   raised |-> FALSE])

\* ------------------------------------------------- saveMask file names
\* A file name is a sequence of characters; the extension is kept as one.
SegNrrd == ".seg.nrrd"
Alphabet == {"m", "d", "%"}
FileNames == UNION {[1 .. n -> Alphabet] : n \in 1 .. MaxNameLen}
NoError == "None"

RECURSIVE PyFormat(_, _, _, _)
\* Python's fmt % idx with the one integer idx: "%d" takes the argument,
\* "%%" is a percent sign, "%(" asks for a mapping, "%" before any other
\* character or at the end is an error, and so is an argument that is
\* missing or left over. left is how many arguments are not yet taken.
PyFormat(fmt, idx, left, out) ==
    IF fmt = <<>>
    THEN IF left > 0
         THEN [raised |-> "TypeError", path |-> <<>>]
         ELSE [raised |-> NoError, path |-> out]
    ELSE IF Head(fmt) # "%"
    THEN PyFormat(Tail(fmt), idx, left, Append(out, Head(fmt)))
    ELSE IF Len(fmt) = 1
    THEN [raised |-> "ValueError", path |-> <<>>]
    ELSE IF fmt[2] = "%"
    THEN PyFormat(Tail(Tail(fmt)), idx, left, Append(out, "%"))
    ELSE IF fmt[2] = "("
    THEN [raised |-> "TypeError", path |-> <<>>]
    ELSE IF fmt[2] = "d"
    THEN IF left = 0
         THEN [raised |-> "TypeError", path |-> <<>>]
         ELSE PyFormat(Tail(Tail(fmt)), idx, left - 1, Append(out, ToString(idx)))
    ELSE [raised |-> "ValueError", path |-> <<>>]

RECURSIVE UniqueName(_, _, _)
\* while os.path.exists(filename % idx): idx += 1; filename = filename % idx
UniqueName(fs, fmt, idx) ==
    IF \/ PyFormat(fmt, idx, 1, <<>>).raised # NoError
       \/ PyFormat(fmt, idx, 1, <<>>).path \notin fs
    THEN PyFormat(fmt, idx, 1, <<>>)
    ELSE UniqueName(fs, fmt, idx + 1)

\* The path saveMask writes filename to (directory, node name and reader
\* joined) when fs are the paths that exist, overwrite_existing False
saveMaskFilename(fs, filename) ==
    IF Append(filename, SegNrrd) \in fs
    THEN UniqueName(fs, filename \o <<"(", "%", "d", ")", SegNrrd>>, 1)
    ELSE [raised |-> NoError, path |-> Append(filename, SegNrrd)]

NotSaved == [raised |-> NoError, path |-> <<>>]

SaveMaskInit == files = {} /\ written = NotSaved

\* saveMask(node) for a node whose file name is filename:
\* slicer.util.saveNode creates the file
SaveMask(filename) ==
    /\ Cardinality(files) < MaxFiles
    /\ \E r \in {saveMaskFilename(files, filename)} :
           /\ written' = r
           /\ files' = IF r.raised = NoError THEN files \cup {r.path} ELSE files
    /\ UNCHANGED <<iteratorVars, otherIterator, IMPLEMENTATIONS, registered, built, constructed,
                   inputWidget, notified>>

SaveMaskNext == \E filename \in FileNames : SaveMask(filename)

\* ------------------------------------------------------ IteratorFactory
CaseTableIteratorWidget == "CsvTableIterator.CaseTableIteratorWidget"
CsvInferenceIteratorWidget == "CsvInferenceIterator.CsvInferenceIteratorWidget"
\* What a caller may pass as widget: the two widget classes of the
\* package, a subclass of IteratorWidgetBase of its own, a class that is
\* not one, and an object that is not a class
Widgets ==
    {CaseTableIteratorWidget, CsvInferenceIteratorWidget, "CustomWidget", "object",
     "CustomWidget()"}
IsClass(widget) == widget # "CustomWidget()"
IsIteratorWidget(widget) ==
    widget \in {CaseTableIteratorWidget, CsvInferenceIteratorWidget, "CustomWidget"}
WidgetNames ==
    {"simple_csv_iteration", "mask_comparison"}
        \cup {"custom" \o ToString(i) : i \in 1 .. MaxCustomNames}

\* (mutant) no name counts as registered
NameTakenNever(impl, name) == FALSE

\* name in cls.IMPLEMENTATIONS.keys()
NameTaken(impl, name) == name \in DOMAIN impl

IteratorFactoryInit ==
    /\ IMPLEMENTATIONS = [n \in {"simple_csv_iteration", "mask_comparison"} |->
                             IF n = "simple_csv_iteration"
                             THEN CaseTableIteratorWidget
                             ELSE CsvInferenceIteratorWidget]
    /\ registered = "none"

\* IteratorFactory.registerIteratorWidget(name, widget); issubclass raises
\* TypeError for an argument that is not a class
registerIteratorWidget(name, widget) ==
    /\ IF NameTaken(IMPLEMENTATIONS, name)
       THEN IMPLEMENTATIONS' = IMPLEMENTATIONS /\ registered' = "already registered"
       ELSE IF ~IsClass(widget)
       THEN IMPLEMENTATIONS' = IMPLEMENTATIONS /\ registered' = "TypeError"
       ELSE IF ~IsIteratorWidget(widget)
       THEN IMPLEMENTATIONS' = IMPLEMENTATIONS /\ registered' = "no subclass"
       ELSE /\ IMPLEMENTATIONS' =
                   [n \in DOMAIN IMPLEMENTATIONS \cup {name} |->
                       IF n = name THEN widget ELSE IMPLEMENTATIONS[n]]
            /\ registered' = "added"
    /\ UNCHANGED <<iteratorVars, otherIterator, files, written, built, constructed, inputWidget,
                   notified>>

IteratorFactoryNext ==
    \E name \in WidgetNames : \E widget \in Widgets :
        registerIteratorWidget(name, widget)

\* ----------------------------------------------------------- _buildPath
\* A POSIX path is [abs, parts]: whether it starts at the root, and its
\* components. The empty string is the relative path without components.
\* An optional value is <<>> for None and <<v>> for v.
Path(abs, parts) == [abs |-> abs, parts |-> parts]
EmptyString == Path(FALSE, <<>>)
Cwd == Path(TRUE, <<"cwd">>)

\* (mutant) no path counts as absolute
isabsNever(p) == FALSE

\* os.path.isabs
isabs(p) == p.abs

\* os.path.join(a, b): an absolute b discards a
join(a, b) == IF isabs(b) THEN b ELSE Path(a.abs, a.parts \o b.parts)

RECURSIVE Collapse(_, _, _)
\* os.path.normpath: "." is dropped, ".." takes the component before it
\* away, is dropped at the root and kept at the head of a relative path
Collapse(abs, parts, out) ==
    IF parts = <<>> THEN out
    ELSE IF Head(parts) = "." THEN Collapse(abs, Tail(parts), out)
    ELSE IF Head(parts) # ".." THEN Collapse(abs, Tail(parts), Append(out, Head(parts)))
    ELSE IF out # <<>> /\ out[Len(out)] # ".."
    THEN Collapse(abs, Tail(parts), SubSeq(out, 1, Len(out) - 1))
    ELSE IF abs THEN Collapse(abs, Tail(parts), out)
    ELSE Collapse(abs, Tail(parts), Append(out, ".."))
normpath(p) == Path(p.abs, Collapse(p.abs, p.parts, <<>>))

\* os.path.abspath
abspath(p) == normpath(join(Cwd, p))

\* CaseTableIteratorLogic._buildPath(caseRoot, fname) of an iterator with
\* self.csv_dir = csv_dir; the three are optional values
_buildPath(caseRoot, fname, csv_dir) ==
    IF fname = <<>> \/ fname = <<EmptyString>> THEN <<>>
    ELSE IF isabs(fname[1]) THEN fname
    ELSE IF caseRoot # <<>> /\ isabs(join(caseRoot[1], fname[1]))
    THEN <<join(caseRoot[1], fname[1])>>
    ELSE <<abspath(
             IF csv_dir # <<>>
             THEN join(csv_dir[1],
                       IF caseRoot # <<>> THEN join(caseRoot[1], fname[1]) ELSE fname[1])
             ELSE IF caseRoot # <<>> THEN join(caseRoot[1], fname[1]) ELSE fname[1])>>

\* The cells and the table locations the program meets
FileCells ==
    {<<>>, <<EmptyString>>, <<Path(FALSE, <<"a.nii">>)>>, <<Path(TRUE, <<"abs", "a.nii">>)>>,
     <<Path(FALSE, <<"..", "a.nii">>)>>, <<Path(TRUE, <<"abs", "..", "a.nii">>)>>}
RootCells ==
    {<<>>, <<EmptyString>>, <<Path(FALSE, <<"sub">>)>>, <<Path(TRUE, <<"root">>)>>,
     <<Path(FALSE, <<"sub", "..">>)>>}
CsvDirs == {<<>>, <<EmptyString>>, <<Path(TRUE, <<"data">>)>>, <<Path(FALSE, <<"tables">>)>>}

BuildPathInit ==
    built = [caseRoot |-> <<>>, fname |-> <<>>, csv_dir |-> <<>>, path |-> <<>>]

\* One call of _buildPath
BuildPath(caseRoot, fname, csv_dir) ==
    /\ built' = [caseRoot |-> caseRoot, fname |-> fname, csv_dir |-> csv_dir,
                 path |-> _buildPath(caseRoot, fname, csv_dir)]
    /\ UNCHANGED <<iteratorVars, otherIterator, files, written, IMPLEMENTATIONS, registered,
                   constructed, inputWidget, notified>>

BuildPathNext ==
    \E caseRoot \in RootCells : \E fname \in FileCells : \E csv_dir \in CsvDirs :
        BuildPath(caseRoot, fname, csv_dir)

\* ---------------------------------------------------------- _getColumns
\* The column names of the table node
TableColumns == {"ID", "dir", "image", "mask", "t2", "adc", "mask2"}
SingleKeys == {"root", "image", "mask"}
ListKeys == {"additionalImages", "additionalMasks"}

\* The column maps a caller passes: each key is absent (<<>>) or holds a
\* column name, the list keys a list of names. A name typed with a comma
\* too many gives the empty name.
SingleChoices(name) == {<<>>, <<name>>, <<"nope">>}
ListChoices(a, b) == {<<>>, <<<<a, b>>>>, <<<<a, "nope">>>>, <<<<"", b>>>>}
ColumnMaps ==
    [root : SingleChoices("dir"), image : SingleChoices("image"),
     mask : SingleChoices("mask"), additionalImages : ListChoices("t2", "adc"),
     additionalMasks : ListChoices("mask2", "mask")]

\* (mutant) every name finds a column
GetColumnByNameAny(name) == <<name>>

\* vtkTable.GetColumnByName: the column, or None (<<>>)
GetColumnByName(name) == IF name \in TableColumns THEN <<name>> ELSE <<>>

\* getColumn(key): whether its assert fails, and the column it stores
getColumnFails(columnMap, key) ==
    columnMap[key] # <<>> /\ GetColumnByName(columnMap[key][1]) = <<>>
getColumn(columnMap, key) ==
    IF columnMap[key] # <<>> THEN GetColumnByName(columnMap[key][1]) ELSE <<>>

\* getListColumn(key)
getListColumnFails(columnMap, key) ==
    /\ columnMap[key] # <<>>
    /\ \E i \in DOMAIN columnMap[key][1] : GetColumnByName(columnMap[key][1][i]) = <<>>
getListColumn(columnMap, key) ==
    IF columnMap[key] # <<>>
    THEN [i \in DOMAIN columnMap[key][1] |-> GetColumnByName(columnMap[key][1][i])[1]]
    ELSE <<>>

NoColumns ==
    [patient |-> <<>>, root |-> <<>>, image |-> <<>>, mask |-> <<>>,
     additionalImages |-> <<>>, additionalMasks |-> <<>>]

\* CaseTableIteratorLogic._getColumns: the first assert that fails raises
_getColumns(columnMap) ==
    IF \/ \E key \in SingleKeys : getColumnFails(columnMap, key)
       \/ \E key \in ListKeys : getListColumnFails(columnMap, key)
    THEN [raised |-> "AssertionError", caseColumns |-> NoColumns]
    ELSE [raised |-> NoError,
          caseColumns |->
              [patient |-> IF GetColumnByName("patient") # <<>>
                           THEN GetColumnByName("patient") ELSE GetColumnByName("ID"),
               root |-> getColumn(columnMap, "root"),
               image |-> getColumn(columnMap, "image"),
               mask |-> getColumn(columnMap, "mask"),
               additionalImages |-> getListColumn(columnMap, "additionalImages"),
               additionalMasks |-> getListColumn(columnMap, "additionalMasks")]]

ConstructInit ==
    constructed = [columnMap |-> [k \in SingleKeys \cup ListKeys |-> <<>>],
                   raised |-> NoError, caseColumns |-> NoColumns, iterator |-> FALSE]

\* startBatch from the construction of the iterator on:
\* CaseTableIteratorLogic(tableNode, columnMap); self._iterator is
\* assigned only when the constructor returns
Construct(columnMap) ==
    /\ \E r \in {_getColumns(columnMap)} :
           constructed' = [columnMap |-> columnMap, raised |-> r.raised,
                           caseColumns |-> r.caseColumns,
                           iterator |-> r.raised = NoError]
    /\ UNCHANGED <<iteratorVars, otherIterator, files, written, IMPLEMENTATIONS, registered, built,
                   inputWidget, notified>>

ConstructNext == \E columnMap \in ColumnMaps : Construct(columnMap)

\* ----------------------------------------------- CaseTableIteratorWidget
\* The table nodes a scene may hold and the texts of the image column box
TableNodes == {"vtkMRMLTableNode1", "vtkMRMLTableNode2"}
ImageTexts == {"", "image", "img"}

\* CaseTableIteratorWidget.is_valid
is_valid(w) == w.currentNodeID # "" /\ w.text # ""

\* IteratorWidgetBase.validate: the value handed to validationHandler,
\* <<>> when there is no handler
validate(w) == IF w.validationHandler THEN <<is_valid(w)>> ELSE <<>>

\* After setup: no table selected, "image" in the image column box
WidgetInit ==
    /\ inputWidget = [tables |-> {}, currentNodeID |-> "", text |-> "image",
                 validationHandler |-> FALSE]
    /\ notified = <<>>

\* What the widget's events leave alone
besidesWidget ==
    <<iteratorVars, otherIterator, files, written, IMPLEMENTATIONS, registered, built, constructed>>

\* The module sets or clears the widget's validationHandler
SetValidationHandler(h) ==
    /\ inputWidget' = [inputWidget EXCEPT !.validationHandler = h]
    /\ notified' = <<>>
    /\ UNCHANGED besidesWidget

\* The user picks a table in the selector: nodeActivated, onChangeTable
UserActivatesTable(t) ==
    /\ t \in inputWidget.tables
    /\ inputWidget' = [inputWidget EXCEPT !.currentNodeID = t]
    /\ notified' = validate(inputWidget')
    /\ UNCHANGED besidesWidget

\* The user creates a table with the selector's "create" entry
\* (addEnabled); selectNodeUponCreation makes it the current node. The
\* selector emits currentNodeChanged, which setup connects nothing to,
\* and no nodeActivated.
UserCreatesTable(t) ==
    /\ t \notin inputWidget.tables
    /\ inputWidget' = [inputWidget EXCEPT !.tables = @ \cup {t}, !.currentNodeID = t]
    /\ notified' = <<>>
    /\ UNCHANGED besidesWidget

\* The user deletes the current table with the selector's "delete" entry
\* (removeEnabled): the selector moves to another table or to none, again
\* without nodeActivated.
UserDeletesTable ==
    /\ inputWidget.currentNodeID # ""
    /\ \E c \in (inputWidget.tables \ {inputWidget.currentNodeID}) \cup {""} :
           inputWidget' = [inputWidget EXCEPT !.tables = @ \ {inputWidget.currentNodeID},
                                    !.currentNodeID = c]
    /\ notified' = <<>>
    /\ UNCHANGED besidesWidget

\* The user types in the image column box: textEdited, onChangeImageColumn
UserEditsImageColumn(text) ==
    /\ text # inputWidget.text
    /\ inputWidget' = [inputWidget EXCEPT !.text = text]
    /\ notified' = validate(inputWidget')
    /\ UNCHANGED besidesWidget

\* The user opens the module: enter, onChangeTable
Enter ==
    /\ inputWidget' = inputWidget
    /\ notified' = validate(inputWidget)
    /\ UNCHANGED besidesWidget

WidgetNext ==
    \/ \E h \in BOOLEAN : SetValidationHandler(h)
    \/ \E t \in TableNodes : UserActivatesTable(t)
    \/ \E t \in TableNodes : UserCreatesTable(t)
    \/ UserDeletesTable
    \/ \E text \in ImageTexts : UserEditsImageColumn(text)
    \/ Enter

\* ------------------------------------------------- a second iterator
\* IteratorLogicBase.__init__ has not run for it yet
OtherIteratorInit == otherIterator = [alive |-> FALSE, currentIdx |-> NoIdx]

ComponentsInit ==
    /\ OtherIteratorInit
    /\ SaveMaskInit
    /\ IteratorFactoryInit
    /\ BuildPathInit
    /\ ConstructInit
    /\ WidgetInit

\* ---------------------------------------------------------------- state
Init ==
    /\ scene = <<>>
    /\ nextId = 1
    /\ parameterNode = [inScene |-> FALSE, CaseData |-> EmptyText]
    /\ currentIdx = NoIdx
    /\ caseCount = GetNumberOfRows
    /\ eventListeners = <<CsvTableEventHandler>>
    /\ maskColumn \in BOOLEAN
    /\ saveNew \in BOOLEAN
    /\ saveLoaded \in BOOLEAN
    /\ widgetIterator = TRUE
    /\ result = "ok"
    /\ events = <<>>
    /\ userSegmentations = 0
    /\ ComponentsInit

\* closeCase on this state reaches a file operation of saveMask: the
\* handler is registered and has a loaded or a new mask to save
SavesOnClose ==
    /\ CsvTableEventHandler \in Range(eventListeners)
    /\ LET data == getCaseData(scene, parameterNode) IN
       \/ saveLoaded /\ (data.ma # None \/ data.add_ma # <<>>)
       \/ saveNew /\ NewMaskNodes(scene, data) # {}

\* The host's answers closeCase can get in this state
CloseOutcomes == IF SavesOnClose THEN SaveOutcomes ELSE {"ok"}

\* The host's answers for the files of row idx. loadCase stops at a main
\* image that does not load, so the files after it are not inputs of that
\* call; without a mask column the mask cell is not read either. A save
\* that raises while the open case is closed ends the call before any
\* file of the row is read, and onCaseLoaded is called only after
\* GetID on the main mask went through.
Unread(cells) == [i \in DOMAIN cells |-> "empty"]
EachOf(cells, F(_)) ==
    {o \in [DOMAIN cells -> UNION {F(cells[i]) : i \in DOMAIN cells}] :
        \A i \in DOMAIN cells : o[i] \in F(cells[i])}
Outcomes(idx) ==
    LET row == caseTable[idx + 1] IN
    [image : ImageOutcomes(row.image) \cap {"ok"},
     additionalImages : EachOf(row.additionalImages, ImageOutcomes),
     mask : IF maskColumn THEN MaskOutcomes(row.mask) \cap {"ok"} ELSE {},
     additionalMasks : EachOf(row.additionalMasks, MaskOutcomes),
     wiring : {"ok", "fail"},
     save : {"ok"}]
    \cup
    [image : ImageOutcomes(row.image) \cap {"ok"},
     additionalImages : EachOf(row.additionalImages, ImageOutcomes),
     mask : IF maskColumn THEN MaskOutcomes(row.mask) \ {"ok"} ELSE {"empty"},
     additionalMasks : EachOf(row.additionalMasks, MaskOutcomes),
     wiring : {"ok"},
     save : {"ok"}]
    \cup
    [image : ImageOutcomes(row.image) \ {"ok"},
     additionalImages : {Unread(row.additionalImages)},
     mask : {"empty"},
     additionalMasks : {Unread(row.additionalMasks)},
     wiring : {"ok"},
     save : {"ok"}]
    \cup
    [image : {"empty"},
     additionalImages : {Unread(row.additionalImages)},
     mask : {"empty"},
     additionalMasks : {Unread(row.additionalMasks)},
     wiring : {"ok"},
     save : IF MustClose(currentIdx) /\ SavesOnClose THEN {"raises"} ELSE {}]
NoOutcomes ==
    [image |-> "empty", additionalImages |-> <<>>, mask |-> "empty",
     additionalMasks |-> <<>>, wiring |-> "ok", save |-> "ok"]

\* The host's answers for row idx when every file the row names loads
AllLoad(idx, save) ==
    LET row == caseTable[idx + 1]
        Loads(cell) == IF cell = "" THEN "empty" ELSE "ok"
    IN [image |-> Loads(row.image),
        additionalImages |-> [i \in DOMAIN row.additionalImages |->
                                 Loads(row.additionalImages[i])],
        mask |-> IF maskColumn THEN Loads(row.mask) ELSE "empty",
        additionalMasks |-> [i \in DOMAIN row.additionalMasks |->
                                Loads(row.additionalMasks[i])],
        wiring |-> "ok",
        save |-> save]

\* The nodes a call with answers o adds to the scene when it gets to
\* read all its files
NodesNeeded(o) ==
    IF o.image # "ok" THEN 0
    ELSE 1 + Cardinality({i \in DOMAIN o.additionalImages : o.additionalImages[i] = "ok"})
           + (IF o.mask \in {"ok", "importfail"} THEN 1 ELSE 0)
           + Cardinality({i \in DOMAIN o.additionalMasks :
                            o.additionalMasks[i] \in {"ok", "importfail"}})

\* The state after loadCase returned or raised with r
AfterLoadCase(r) ==
    /\ scene' = r.scene
    /\ nextId' = r.nextId
    /\ parameterNode' = r.pn
    /\ currentIdx' = r.cur
    /\ events' = r.events
    /\ result' = r.result
    /\ UNCHANGED <<caseCount, eventListeners, maskColumn, saveNew, saveLoaded,
                   widgetIterator, userSegmentations, componentVars>>

\* The batch runner calls loadCase(idx) on the iterator of the running
\* batch; the host answers o for the files of the row.
LoadCase(idx, o) ==
    /\ widgetIterator
    /\ nextId + NodesNeeded(o) <= MaxNodeId + 1
    /\ \E r \in {loadCase(idx, o, scene, nextId, parameterNode, currentIdx,
                          caseCount, eventListeners, maskColumn, saveNew,
                          saveLoaded)} : AfterLoadCase(r)

\* The state after closeCase returned or raised with r
AfterCloseCase(r, save) ==
    /\ scene' = r.scene
    /\ parameterNode' = r.pn
    /\ currentIdx' = r.cur
    /\ events' = r.events
    /\ result' = IF r.raised THEN RaisedBy(save) ELSE "ok"
    /\ UNCHANGED <<nextId, caseCount, eventListeners, maskColumn, saveNew,
                   saveLoaded, userSegmentations, componentVars>>

\* The batch runner calls closeCase() on the iterator of the running
\* batch; the host answers save to the file operations.
CloseCase(save) ==
    /\ widgetIterator
    /\ \E r \in {closeCase(scene, parameterNode, currentIdx, eventListeners,
                           saveNew, saveLoaded, save)} : AfterCloseCase(r, save)
    /\ UNCHANGED widgetIterator

\* CaseTableIteratorWidget.cleanupBatch at the end of the batch: closeCase
\* on the widget's iterator, then the widget drops it (an exception of
\* closeCase leaves the reference in place). Without an iterator nothing
\* is closed.
CleanupBatch(save) ==
    IF widgetIterator
    THEN /\ \E r \in {closeCase(scene, parameterNode, currentIdx,
                                eventListeners, saveNew, saveLoaded, save)} :
                AfterCloseCase(r, save)
         /\ widgetIterator' = (result' # "ok")
    ELSE /\ events' = <<>>
         /\ result' = "ok"
         /\ UNCHANGED <<scene, nextId, parameterNode, currentIdx, caseCount,
                        eventListeners, maskColumn, saveNew, saveLoaded,
                        widgetIterator, userSegmentations, componentVars>>

\* IteratorLogicBase.registerEventListener
RegisterEventListener(l) ==
    /\ widgetIterator
    /\ eventListeners' = IF l \notin Range(eventListeners)
                         THEN Append(eventListeners, l)
                         ELSE eventListeners
    /\ result' = "ok"
    /\ events' = <<>>
    /\ UNCHANGED <<scene, nextId, parameterNode, currentIdx, caseCount, maskColumn,
                   saveNew, saveLoaded, widgetIterator, userSegmentations,
                   componentVars>>

\* The user creates a segmentation in the host while the batch runs (it
\* has no storage node yet)
UserAddSegmentation ==
    /\ widgetIterator
    /\ nextId <= MaxNodeId
    /\ userSegmentations < MaxUserSegmentations
    /\ userSegmentations' = userSegmentations + 1
    /\ scene' = AddNode(scene, nextId, "vtkMRMLSegmentationNode", FALSE)
    /\ nextId' = nextId + 1
    /\ result' = "ok"
    /\ events' = <<>>
    /\ UNCHANGED <<parameterNode, currentIdx, caseCount, eventListeners, maskColumn,
                   saveNew, saveLoaded, widgetIterator, componentVars>>

Next ==
    \/ \E idx \in 0 .. caseCount - 1 : \E o \in Outcomes(idx) : LoadCase(idx, o)
    \/ \E idx \in {-1, caseCount} : LoadCase(idx, NoOutcomes)
    \/ \E save \in CloseOutcomes : CloseCase(save)
    \/ \E save \in CloseOutcomes : CleanupBatch(save)
    \/ \E l \in Listeners : RegisterEventListener(l)
    \/ UserAddSegmentation

Spec == Init /\ [][Next]_vars

\* ------------------------------------------- two iterators, one scene
\* What a call on the second iterator leaves alone
besidesOther ==
    <<currentIdx, caseCount, eventListeners, maskColumn, saveNew, saveLoaded,
      widgetIterator, userSegmentations, files, written, IMPLEMENTATIONS,
      registered, built, constructed, inputWidget, notified>>

\* The listeners of the second iterator: startBatch registers one
\* CsvTableEventHandler
OtherListeners == <<CsvTableEventHandler>>

\* The host's answers for a load on the second iterator: its saves go
\* through
OtherOutcomes(idx) == {o \in Outcomes(idx) : o.save = "ok"}

\* CaseTableIteratorWidget.startBatch for another batch: a new
\* CaseTableIteratorLogic on the table; its __init__ sets currentIdx to
\* None and touches neither the scene nor the parameter node.
OtherStartBatch ==
    /\ ~otherIterator.alive
    /\ otherIterator' = [alive |-> TRUE, currentIdx |-> NoIdx]
    /\ events' = <<>>
    /\ result' = "ok"
    /\ UNCHANGED <<scene, nextId, parameterNode, besidesOther>>

\* The state after loadCase on the second iterator ended with r
AfterOtherLoadCase(r) ==
    /\ scene' = r.scene
    /\ nextId' = r.nextId
    /\ parameterNode' = r.pn
    /\ otherIterator' = [otherIterator EXCEPT !.currentIdx = r.cur]
    /\ events' = r.events
    /\ result' = r.result
    /\ UNCHANGED besidesOther

\* loadCase(idx) on the second iterator
OtherLoadCase(idx, o) ==
    /\ otherIterator.alive
    /\ nextId + NodesNeeded(o) <= MaxNodeId + 1
    /\ \E r \in {loadCase(idx, o, scene, nextId, parameterNode,
                          otherIterator.currentIdx, caseCount, OtherListeners,
                          maskColumn, saveNew, saveLoaded)} : AfterOtherLoadCase(r)

\* The state after closeCase on the second iterator ended with r
AfterOtherCloseCase(r) ==
    /\ scene' = r.scene
    /\ parameterNode' = r.pn
    /\ otherIterator' = [otherIterator EXCEPT !.currentIdx = r.cur]
    /\ events' = r.events
    /\ result' = IF r.raised THEN RaisedBy("ok") ELSE "ok"
    /\ UNCHANGED <<nextId, besidesOther>>

\* closeCase() on the second iterator (cleanupBatch calls it whether or
\* not that iterator has a case open)
OtherCloseCase ==
    /\ otherIterator.alive
    /\ \E r \in {closeCase(scene, parameterNode, otherIterator.currentIdx,
                           OtherListeners, saveNew, saveLoaded, "ok")} :
           AfterOtherCloseCase(r)

\* The state after __del__ of the second iterator, whose closeCase (when
\* it had a case open) ended with r: an exception of closeCase ends
\* __del__; otherwise the parameter node the getter finds or creates is
\* removed from the scene.
AfterOtherDel(r) ==
    /\ scene' = r.scene
    /\ parameterNode' = IF r.raised THEN r.pn
                        ELSE [inScene |-> FALSE, CaseData |-> EmptyText]
    /\ otherIterator' = [alive |-> FALSE, currentIdx |-> NoIdx]
    /\ events' = r.events
    /\ result' = "ok"
    /\ UNCHANGED <<nextId, besidesOther>>

\* IteratorLogicBase.__del__ on the second iterator
OtherDel ==
    /\ otherIterator.alive
    /\ \E r \in {IF otherIterator.currentIdx # NoIdx
                 THEN closeCase(scene, parameterNode, otherIterator.currentIdx,
                                OtherListeners, saveNew, saveLoaded, "ok")
                 ELSE [scene |-> scene, pn |-> parameterNode, cur |-> NoIdx,
                       events |-> <<>>, raised |-> FALSE]} : AfterOtherDel(r)

TwoIteratorsNext ==
    \/ \E idx \in 0 .. caseCount - 1 : \E o \in Outcomes(idx) : LoadCase(idx, o)
    \/ \E save \in CloseOutcomes : CloseCase(save)
    \/ OtherStartBatch
    \/ \E idx \in 0 .. caseCount - 1 : \E o \in OtherOutcomes(idx) :
           OtherLoadCase(idx, o)
    \/ OtherCloseCase
    \/ OtherDel

\* Two iterators of two batches on the one scene
TwoIteratorsSpec == Init /\ [][TwoIteratorsNext]_vars

\* saveMask alone, on a directory that fills up
SaveMaskSpec == Init /\ [][SaveMaskNext]_vars

\* _buildPath alone, on every cell and table location
BuildPathSpec == Init /\ [][BuildPathNext]_vars

\* The construction of the iterator on every column map
ConstructSpec == Init /\ [][ConstructNext]_vars

\* The input widget under the user's actions
WidgetSpec == Init /\ [][WidgetNext]_vars

\* The widget registry under any sequence of registrations
IteratorFactorySpec == Init /\ [][IteratorFactoryNext]_vars

\* ---------------------------------------------------------------- claims
\* The calls the batch runner can make in the current state
ValidIndices == 0 .. caseCount - 1
BadIndices == {-2, -1, caseCount, caseCount + 1}
CallLoadCase(idx, o) ==
    loadCase(idx, o, scene, nextId, parameterNode, currentIdx, caseCount,
             eventListeners, maskColumn, saveNew, saveLoaded)
CallCloseCase(save) ==
    closeCase(scene, parameterNode, currentIdx, eventListeners, saveNew, saveLoaded,
              save)

\* The positions at which listener l is handed the event of one type
Deliveries(log, type, l) ==
    {i \in DOMAIN log : log[i].type = type /\ log[i].listener = l}

\* The node IDs a case-record text names
RecordNodes(text) ==
    IF text = EmptyText THEN {}
    ELSE ({Lookup(text, "InputImage_ID"), Lookup(text, "InputMask_ID")}
          \cup Range(Lookup(text, "Additional_InputImage_IDs"))
          \cup Range(Lookup(text, "Additional_InputMask_IDs"))) \ {None}

C2_OutOfRangeChangesNothing ==
    \A idx \in BadIndices :
        LET r == CallLoadCase(idx, NoOutcomes) IN
        /\ r.result = "AssertionError"
        /\ r.cur = currentIdx
        /\ r.scene = scene
        /\ r.pn = parameterNode
        /\ r.nextId = nextId
        /\ r.events = <<>>

\* An out-of-range loadCase was called while a case was open
C2_Witness ==
    /\ result = "AssertionError"
    /\ events = <<>>
    /\ currentIdx # NoIdx
    /\ RecordNodes(parameterNode.CaseData) \subseteq DOMAIN scene

\* Whether the answers o give row idx a main mask node
YieldsMainMask(o) == maskColumn /\ o.mask = "ok"

\* C3: for every valid row whose main image loads, rows without a mask
\* included, loadCase(i) followed by getCaseData() gives a main image that
\* is not None.
C3_MainImageAfterLoad ==
    [][\A idx \in ValidIndices : \A o \in Outcomes(idx) :
          (o.image = "ok" /\ LoadCase(idx, o)) =>
              getCaseData(scene', parameterNode').im # None]_vars

\* C4: when the main image loads and the row yields no main mask node,
\* loadCase(idx) still succeeds: the case record names the main image and
\* an empty main mask, currentIdx is idx and "case loaded" is delivered.
C4_MaskIsOptional ==
    [][\A idx \in ValidIndices : \A o \in Outcomes(idx) :
          (o.image = "ok" /\ ~YieldsMainMask(o) /\ LoadCase(idx, o)) =>
              /\ result' = "ok"
              /\ currentIdx' = <<idx>>
              /\ parameterNode'.CaseData # EmptyText
              /\ Lookup(parameterNode'.CaseData, "InputImage_ID") \in DOMAIN scene'
              /\ Lookup(parameterNode'.CaseData, "InputMask_ID") = None
              /\ \A l \in Range(eventListeners) :
                     Deliveries(events', "caseLoaded", l) # {}]_vars

C6_CloseWhenIdleIsNoOp ==
    [][(currentIdx = NoIdx /\ widgetIterator
             /\ \E save \in CloseOutcomes : CloseCase(save) \/ CleanupBatch(save)) =>
          /\ result' = "ok"
          /\ DOMAIN scene' = DOMAIN scene
          /\ EventsOfType(events', "saveNode") = {}
          /\ currentIdx' = NoIdx
          /\ \A i \in EventsOfType(events', "caseAboutToClose") :
                 events'[i].data = EmptyCaseData]_vars

\* C7: the case record lives for one case: a successful loadCase
\* overwrites it with the nodes of the case it loaded, and closeCase
\* clears it, so that after a closeCase the record names no node.
C7_RecordLivesForOneCase ==
    [][/\ (/\ widgetIterator
           /\ \E save \in CloseOutcomes : CloseCase(save) \/ CleanupBatch(save)
           /\ result' = "ok") =>
              RecordNodes(parameterNode'.CaseData) = {}
       /\ \A idx \in ValidIndices : \A o \in Outcomes(idx) :
              (LoadCase(idx, o) /\ result' = "ok") =>
                  RecordNodes(parameterNode'.CaseData) =
                      {events'[i].node : i \in EventsOfType(events', "loadNode")}
                          \ {None}]_vars

\* C8: when the case record cannot be evaluated, or names a node that is
\* no longer in the scene, getCaseData returns the all-empty result
\* (None, None, [], []) and not a partly filled one.
C8_EmptyOnAnyFailure ==
    (\/ ~CanEval(parameterNode.CaseData)
     \/ ~(RecordNodes(parameterNode.CaseData) \subseteq DOMAIN scene)) =>
        getCaseData(scene, parameterNode) = EmptyCaseData

\* C9: when loadCase(idx) gets to the main image of row idx and it does
\* not load (empty cell, missing file or failed host load), the call
\* raises the main-image assertion, currentIdx is not idx, the case record
\* is not written and no "case loaded" is delivered.
C9_MainImageIsMandatory ==
    \A idx \in ValidIndices : \A o \in Outcomes(idx) :
        (o.image # "ok" /\ o.save = "ok") =>
            LET r == CallLoadCase(idx, o) IN
            /\ r.result = "AssertionError"
            /\ r.cur = NoIdx
            /\ r.pn.CaseData = parameterNode.CaseData
            /\ EventsOfType(r.events, "caseLoaded") = {}
            /\ r.nextId = nextId

\* A loadCase stopped at a main image that did not load, after it had
\* closed the case that was open
C9_Witness ==
    /\ result = "AssertionError"
    /\ events # <<>>
    /\ events[Len(events)] = EvLoad("image", None)
    /\ events[1].type = "caseAboutToClose"
    /\ currentIdx = NoIdx

RECURSIVE LoadedFrom(_, _)
\* The nodes the host calls for one column returned, in call order
LoadedFrom(log, column) ==
    IF log = <<>> THEN <<>>
    ELSE LET e == Head(log)
         IN (IF e.type = "loadNode" /\ e.column = column /\ e.node # None
             THEN <<e.node>> ELSE <<>>)
            \o LoadedFrom(Tail(log), column)

\* C10: when the main image and the main mask load, loadCase(idx) succeeds
\* whatever subset of the additional images and masks is missing or fails
\* to load, and the case record lists exactly the additional nodes that
\* did load, in column order. (The wiring of the event handler works; its
\* failure is the case of C17.)
C10_AdditionalFailuresAreSkipped ==
    \A idx \in ValidIndices : \A o \in Outcomes(idx) :
        (o.image = "ok" /\ YieldsMainMask(o) /\ o.wiring = "ok") =>
            LET r == CallLoadCase(idx, o)
                ims == Lookup(r.pn.CaseData, "Additional_InputImage_IDs")
                mas == Lookup(r.pn.CaseData, "Additional_InputMask_IDs")
            IN /\ r.result = "ok"
               /\ r.cur = <<idx>>
               /\ ims = LoadedFrom(r.events, "additionalImages")
               /\ mas = LoadedFrom(r.events, "additionalMasks")
               /\ Len(ims) = Cardinality({i \in DOMAIN o.additionalImages :
                                            o.additionalImages[i] = "ok"})
               /\ Len(mas) = Cardinality({i \in DOMAIN o.additionalMasks :
                                            o.additionalMasks[i] = "ok"})
               /\ \A i \in DOMAIN ims : \A j \in DOMAIN ims : i < j => ims[i] < ims[j]
               /\ \A i \in DOMAIN mas : \A j \in DOMAIN mas : i < j => mas[i] < mas[j]
               /\ Range(ims) \cup Range(mas) \subseteq DOMAIN r.scene

\* A case was loaded with both additional images in the record, and one
\* with an additional mask that did not load left out of it
C10_Witness ==
    /\ result = "ok"
    /\ currentIdx # NoIdx
    /\ \/ Len(Lookup(parameterNode.CaseData, "Additional_InputImage_IDs")) = 2
       \/ /\ Len(Lookup(parameterNode.CaseData, "Additional_InputMask_IDs")) = 1
          /\ \E i \in DOMAIN events :
                 events[i] = EvLoad("additionalMasks", None)

\* The nodes handed to slicer.util.saveNode, in call order
SavedNodes(log) ==
    [k \in 1 .. Cardinality(EventsOfType(log, "saveNode")) |->
        log[CHOOSE i \in EventsOfType(log, "saveNode") :
                Cardinality({j \in EventsOfType(log, "saveNode") : j <= i}) = k].node]

\* The loaded masks of the open case: the main mask and the additional ones
LoadedMasks(text) ==
    ({Lookup(text, "InputMask_ID")} \cup Range(Lookup(text, "Additional_InputMask_IDs")))
        \ {None}

Numbered(filename, n) == filename \o <<"(", ToString(n), ")", SegNrrd>>

\* C12: with overwrite false saveMask writes <name>.seg.nrrd when that path
\* does not exist, and otherwise <name>(n).seg.nrrd for the smallest n >= 1
\* whose path does not exist; the path it picks never exists already.
C12_SmallestFreeName ==
    [][\A filename \in FileNames :
          SaveMask(filename) =>
              /\ written'.raised = NoError
              /\ written'.path \notin files
              /\ IF Append(filename, SegNrrd) \notin files
                 THEN written'.path = Append(filename, SegNrrd)
                 ELSE \E n \in 1 .. MaxFiles + 1 :
                          /\ written'.path = Numbered(filename, n)
                          /\ \A k \in 1 .. n - 1 : Numbered(filename, k) \in files]_vars

\* C13: a registered name keeps its widget: registerIteratorWidget under a
\* name already in use, or with a widget that is not a subclass of
\* IteratorWidgetBase, leaves the registry as it is; a new name with a
\* widget class adds that one mapping and nothing else.
C13_RegisteredNamesKeepTheirWidget ==
    [][\A name \in WidgetNames : \A widget \in Widgets :
          registerIteratorWidget(name, widget) =>
              /\ \A n \in DOMAIN IMPLEMENTATIONS :
                     n \in DOMAIN IMPLEMENTATIONS' /\ IMPLEMENTATIONS'[n] = IMPLEMENTATIONS[n]
              /\ IF name \notin DOMAIN IMPLEMENTATIONS /\ IsIteratorWidget(widget)
                 THEN /\ DOMAIN IMPLEMENTATIONS' = DOMAIN IMPLEMENTATIONS \cup {name}
                      /\ IMPLEMENTATIONS'[name] = widget
                 ELSE IMPLEMENTATIONS' = IMPLEMENTATIONS]_vars

\* A registration under a name that a caller had registered before was
\* turned down
C13_Witness ==
    /\ registered = "already registered"
    /\ \E n \in DOMAIN IMPLEMENTATIONS : n \notin {"simple_csv_iteration", "mask_comparison"}

\* The components of a path, without "." and with ".." resolved
Resolved(p) == Collapse(p.abs, p.parts, <<>>)

\* C14: path resolution has a fixed precedence. An empty or absent file
\* name gives no path; an absolute file name is returned as it is; else
\* the name joined to the row's root is returned when that is absolute;
\* else the source directory of the table, when it has one, comes in
\* front: "a.nii" with root "sub" and source directory /data is
\* /data/sub/a.nii.
C14_PathPrecedence ==
    LET root == built.caseRoot
        fname == built.fname
        dir == built.csv_dir
        rooted == (IF root = <<>> THEN <<>> ELSE root[1].parts) \o fname[1].parts
    IN /\ (fname = <<>> \/ fname = <<EmptyString>>) <=> built.path = <<>>
       /\ built.path # <<>> =>
              /\ built.path[1].abs
              /\ fname[1].abs => built.path = fname
              /\ (~fname[1].abs /\ root # <<>> /\ root[1].abs) =>
                     built.path[1].parts = root[1].parts \o fname[1].parts
              /\ (~fname[1].abs /\ (root = <<>> \/ ~root[1].abs)) =>
                     built.path[1].parts =
                         Resolved(Path(TRUE,
                             (IF dir = <<>> THEN Cwd.parts
                              ELSE IF dir[1].abs THEN dir[1].parts
                              ELSE Cwd.parts \o dir[1].parts) \o rooted))
       /\ (root = <<Path(FALSE, <<"sub">>)>> /\ fname = <<Path(FALSE, <<"a.nii">>)>>
             /\ dir = <<Path(TRUE, <<"data">>)>>) =>
              built.path = <<Path(TRUE, <<"data", "sub", "a.nii">>)>>

\* _buildPath resolved "a.nii" under root "sub" and source directory /data
C14_Witness ==
    /\ built.caseRoot = <<Path(FALSE, <<"sub">>)>>
    /\ built.fname = <<Path(FALSE, <<"a.nii">>)>>
    /\ built.csv_dir = <<Path(TRUE, <<"data">>)>>
    /\ built.path = <<Path(TRUE, <<"data", "sub", "a.nii">>)>>

\* The column names a column map asks for
NamesAsked(columnMap) ==
    UNION ({IF columnMap[key] = <<>> THEN {} ELSE {columnMap[key][1]} : key \in SingleKeys}
           \cup {IF columnMap[key] = <<>> THEN {} ELSE Range(columnMap[key][1]) :
                     key \in ListKeys})

C16_ValidityIsNotified ==
    [][/\ is_valid(inputWidget') <=>
              (inputWidget'.currentNodeID \in TableNodes /\ inputWidget'.text # "")
       /\ (\/ inputWidget'.currentNodeID # inputWidget.currentNodeID
           \/ inputWidget'.text # inputWidget.text) =>
              notified' = IF inputWidget'.validationHandler
                          THEN <<is_valid(inputWidget')>>
                          ELSE <<>>]_vars

\* C17: "case loaded" is handled as well as it goes: when loadCase(idx)
\* gets to the event and the viewer or editor wiring of the event handler
\* fails, the failure is logged and loadCase ends as it does when the
\* wiring works: it succeeds, currentIdx is idx and the case record names
\* the nodes of case idx.
C17_WiringFailureDoesNotAbort ==
    \A idx \in ValidIndices : \A o \in Outcomes(idx) :
        (o.wiring = "fail" /\ o.image = "ok" /\ YieldsMainMask(o)) =>
            LET r == CallLoadCase(idx, o)
                works == CallLoadCase(idx, [o EXCEPT !.wiring = "ok"])
            IN /\ \E i \in DOMAIN r.events : r.events[i] = EvWarning(CsvTableEventHandler)
               /\ r.result = "ok"
               /\ r.cur = <<idx>>
               /\ r.pn = works.pn
               /\ r.scene = works.scene
               /\ Lookup(r.pn.CaseData, "InputImage_ID") \in DOMAIN r.scene
               /\ RecordNodes(r.pn.CaseData) =
                      {r.events[i].node : i \in EventsOfType(r.events, "loadNode")}
                          \ {None}

\* A case was loaded while the wiring of the event handler failed
C17_Witness ==
    /\ result = "ok"
    /\ currentIdx # NoIdx
    /\ \E i \in DOMAIN events : events[i] = EvWarning(CsvTableEventHandler)
    /\ RecordNodes(parameterNode.CaseData) \subseteq DOMAIN scene

RECURSIVE DeliveredTo(_, _)
\* The listeners that were handed the event of one type, in call order
DeliveredTo(log, type) ==
    IF log = <<>> THEN <<>>
    ELSE (IF Head(log).type = type THEN <<Head(log).listener>> ELSE <<>>)
         \o DeliveredTo(Tail(log), type)

\* C18: each "case loaded" and each "case about to close" is delivered to
\* every registered listener once, in the order of registration; to
\* register a listener that is registered already changes nothing.
C18_EveryListenerOnceInOrder ==
    [][/\ \A l \in Listeners :
              RegisterEventListener(l) =>
                  eventListeners' = IF l \in Range(eventListeners)
                                    THEN eventListeners
                                    ELSE Append(eventListeners, l)
       /\ \A type \in {"caseLoaded", "caseAboutToClose"} :
              DeliveredTo(events', type) \in {<<>>, eventListeners'}]_vars

\* C19: under any sequence of loadCase and closeCase calls, failing ones
\* included, currentIdx is None or an index in [0, caseCount), caseCount
\* stays what it was at construction, and while currentIdx is not None the
\* case record is the one loadCase wrote for that row and its main image
\* is a node of the scene.
C19_CurrentIdxAndRecordAgree ==
    /\ [](\A idx \in ValidIndices : \A o \in Outcomes(idx) :
             LET r == CallLoadCase(idx, o) IN
             IF r.result = "ok"
             THEN /\ r.cur = <<idx>>
                  /\ RecordNodes(r.pn.CaseData) =
                         {r.events[i].node : i \in EventsOfType(r.events, "loadNode")}
                             \ {None}
             ELSE EventsOfType(r.events, "caseLoaded") = {})
    /\ [][/\ currentIdx' \in {NoIdx} \cup {<<i>> : i \in 0 .. caseCount - 1}
          /\ caseCount' = caseCount
          /\ caseCount = GetNumberOfRows
          /\ currentIdx' # NoIdx =>
                 /\ Lookup(parameterNode'.CaseData, "InputImage_ID") \in DOMAIN scene'
                 /\ scene'[Lookup(parameterNode'.CaseData, "InputImage_ID")].class
                        = "vtkMRMLScalarVolumeNode"
                 /\ EventsOfType(events', "caseLoaded") = {} =>
                        /\ currentIdx' = currentIdx
                        /\ parameterNode'.CaseData = parameterNode.CaseData]_vars

\* Row 1 was loaded after the case that was open had been closed
C19_Witness ==
    /\ currentIdx = <<1>>
    /\ result = "ok"
    /\ events # <<>>
    /\ events[1].type = "caseAboutToClose"
    /\ events[1].data.im # None
    /\ Lookup(parameterNode.CaseData, "InputImage_ID") \in DOMAIN scene

\* The rows loadCase can open when all their files load: GetID on the
\* main mask raises for a row without one
LoadableRows ==
    {j \in ValidIndices : maskColumn /\ caseTable[j + 1].mask # ""}

\* loadCase(j) called in the state closeCase left as r
LoadAfterClose(j, r, save) ==
    loadCase(j, AllLoad(j, save), r.scene, nextId, r.pn, r.cur, caseCount,
             eventListeners, maskColumn, saveNew, saveLoaded)

\* C20: closeCase on an open case always brings the iterator back to
\* idle, also when a listener raises while it handles "case about to
\* close" (a mask save that raises): the nodes of the case record are
\* removed, currentIdx is None, and a following loadCase(j) of a row whose
\* files load opens case j.
C20_CloseAlwaysReturnsToIdle ==
    (widgetIterator /\ currentIdx # NoIdx) =>
        \A save \in CloseOutcomes :
            LET r == CallCloseCase(save) IN
            /\ r.cur = NoIdx
            /\ RecordNodes(parameterNode.CaseData) \cap DOMAIN r.scene = {}
            /\ \A j \in LoadableRows :
                   LET l == LoadAfterClose(j, r, save) IN
                   /\ l.result = "ok"
                   /\ l.cur = <<j>>

\* closeCase on an open case returns to idle when no listener raises
C20_IdleWhenNoListenerRaises ==
    (widgetIterator /\ currentIdx # NoIdx) =>
        LET r == CallCloseCase("ok") IN
        /\ r.cur = NoIdx
        /\ RecordNodes(parameterNode.CaseData) \cap DOMAIN r.scene = {}
        /\ \A j \in LoadableRows :
               LET l == LoadAfterClose(j, r, "ok") IN
               /\ l.result = "ok"
               /\ l.cur = <<j>>

\* A closeCase on an open case was ended by the exception of a save: the
\* case is still open and its nodes are still in the scene
C20_StillOpenAfterClose ==
    /\ result = "Exception"
    /\ events # <<>>
    /\ events[1].type = "caseAboutToClose"
    /\ EventsOfType(events, "loadNode") = {}
    /\ currentIdx # NoIdx
    /\ RecordNodes(parameterNode.CaseData) # {}
    /\ RecordNodes(parameterNode.CaseData) \subseteq DOMAIN scene

\* The nodes a step added to the scene
AddedNodes == DOMAIN scene' \ DOMAIN scene

\* C21: no node the iterator loaded is orphaned: every image or mask node
\* a loadCase call added to the scene is named in the case record after
\* the call, so that a later closeCase removes it; a loadCase that fails
\* part-way and a labelmap whose import fails leave no node behind.
C21_NoLoadedNodeIsOrphaned ==
    [][EventsOfType(events', "loadNode") # {} =>
           AddedNodes \subseteq RecordNodes(parameterNode'.CaseData)]_vars

\* A loadCase returned True and left a node in the scene that the case
\* record does not name
C21_OrphanAfterLoad ==
    /\ result = "ok"
    /\ currentIdx # NoIdx
    /\ EventsOfType(events, "caseLoaded") # {}
    /\ \E n \in DOMAIN scene :
           /\ n \notin RecordNodes(parameterNode.CaseData)
           /\ scene[n].storage
           /\ scene[n].class = "vtkMRMLSegmentationNode"
           /\ userSegmentations = 0

\* The first iterator has a case open whose record and nodes are in the
\* scene, and the second iterator has none open
OwnCaseOpen ==
    /\ currentIdx # NoIdx
    /\ otherIterator.currentIdx = NoIdx
    /\ parameterNode.inScene
    /\ RecordNodes(parameterNode.CaseData) # {}
    /\ RecordNodes(parameterNode.CaseData) \subseteq DOMAIN scene

\* C22: the case record one iterator's loadCase wrote stays intact and
\* readable by it until its own closeCase, whatever another iterator
\* does: to construct, close or destroy the other iterator removes neither
\* the nodes nor the parameter record of the case the first one opened.
C22_RecordSurvivesOtherIterators ==
    [][(OwnCaseOpen /\ (OtherStartBatch \/ OtherCloseCase \/ OtherDel)) =>
           /\ parameterNode' = parameterNode
           /\ RecordNodes(parameterNode.CaseData) \subseteq DOMAIN scene'
           /\ getCaseData(scene', parameterNode') = getCaseData(scene, parameterNode)]_vars

\* To construct another iterator leaves the open case of the first alone
C22_ConstructionLeavesTheCase ==
    [][(OwnCaseOpen /\ OtherStartBatch) =>
           /\ parameterNode' = parameterNode
           /\ scene' = scene]_vars

\* The second iterator, with no case of its own, was closed while the
\* first had a case open: the nodes of that case are gone
C22_ClosedByTheOther ==
    /\ currentIdx # NoIdx
    /\ otherIterator.alive
    /\ otherIterator.currentIdx = NoIdx
    /\ events # <<>>
    /\ events[Len(events)].type = "RemoveNode"
    /\ RecordNodes(parameterNode.CaseData) \cap DOMAIN scene = {}

\* The nodes a close saved that are not loaded masks of the case record
SavedAsNew(log, text) == Range(SavedNodes(log)) \ LoadedMasks(text)

\* closeCase called in the state loadCase left as l
CloseAfterLoad(l) ==
    closeCase(l.scene, l.pn, l.cur, eventListeners, saveNew, saveLoaded, "ok")

\* The segmentations of the scene that the case record does not name are
\* the ones the user created: no failed import has left one
OnlyUserSegmentations ==
    Cardinality({n \in DOMAIN scene : scene[n].class = "vtkMRMLSegmentationNode"}
                    \ LoadedMasks(parameterNode.CaseData)) = userSegmentations

\* C23: with "save new masks" on, a segmentation the user created during
\* case i is saved at the close of case i only, and every node saved as
\* new at the close of a case was created while that case was open: when
\* case i is closed, case j is loaded and closed with nothing created in
\* between, the close of case j saves no node as new.
C23_NewMasksSavedAtTheirCaseOnly ==
    (/\ widgetIterator
     /\ currentIdx # NoIdx
     /\ saveNew
     /\ CsvTableEventHandler \in Range(eventListeners)
     /\ OnlyUserSegmentations) =>
        LET r1 == CallCloseCase("ok") IN
        \A j \in LoadableRows :
            LET l == LoadAfterClose(j, r1, "ok")
                r2 == CloseAfterLoad(l)
            IN l.result = "ok" => SavedAsNew(r2.events, l.pn.CaseData) = {}

\* The close of a case saves as new only nodes that are in the scene and
\* not in the record, whenever they were created
C23_SavedAsNewAreTheUnrecorded ==
    (/\ widgetIterator
     /\ currentIdx # NoIdx
     /\ saveNew
     /\ CsvTableEventHandler \in Range(eventListeners)) =>
        SavedAsNew(CallCloseCase("ok").events, parameterNode.CaseData) =
            {n \in DOMAIN scene : scene[n].class = "vtkMRMLSegmentationNode"}
                \ LoadedMasks(parameterNode.CaseData)

====
